---------------------------- MODULE Spec2Model ----------------------------
(***************************************************************************)
(* Wolof-Bridge: the /process pipeline (src/main.py), the translation      *)
(* client (src/services/translator.py) and the model query client          *)
(* (src/services/data_model.py).                                           *)
(*                                                                         *)
(* Python strings are sequences of one-character strings, so that strip(), *)
(* f-string concatenation and substring tests are computed and not assumed.*)
(* A Python value is a record [t, s, n]: t is the type name, s the string  *)
(* content (for "str"), n the integer value (for "int") or the length (for *)
(* "list").                                                                *)
(***************************************************************************)
EXTENDS Integers, Sequences, FiniteSets, TLC

\* ----- bounds of the explored inputs -----
\* longest text a caller passes to an operation
MaxLen ==
  2
\* longest string a remote service puts in a reply
MaxReplyLen ==
  1
\* requests served after which no further request is accepted
MaxRequestId ==
  2

\* characters of the explored texts: one whitespace, one non-whitespace
Chars ==
  {" ", "x"}

Strs(n) ==
  UNION {[1..k -> Chars] : k \in 0..n}

\* ----- Python values -----
StrVal(s) ==
  [t |-> "str", s |-> s, n |-> 0]
IntVal(i) ==
  [t |-> "int", s |-> <<>>, n |-> i]
None ==
  [t |-> "NoneType", s |-> <<>>, n |-> 0]
ListVal(len) ==
  [t |-> "list", s |-> <<>>, n |-> len]

\* bool(v): what `not v` negates
Truthy(v) ==
  CASE v.t = "str" -> v.s # <<>>
    [] v.t = "int" -> v.n # 0
    [] v.t = "list" -> v.n > 0
    [] OTHER -> FALSE

\* isinstance(v, str)
IsStr(v) ==
  v.t = "str"

\* ----- message literals of the source and of the libraries it calls -----
MSG_NO_QUERY ==
  <<"N","o"," ","q","u","e","r","y"," ","p","r","o","v","i","d","e","d">>
MSG_TEXT_NON_EMPTY ==
  <<"T","e","x","t"," ","m","u","s","t"," ","b","e"," ","a"," ","n","o","n","-","e","m","p","t","y"," ","s","t","r","i","n","g">>
MSG_UNSUPPORTED_SOURCE ==
  <<"U","n","s","u","p","p","o","r","t","e","d"," ","s","o","u","r","c","e"," ","l","a","n","g","u","a","g","e",":"," ">>
MSG_UNSUPPORTED_TARGET ==
  <<"U","n","s","u","p","p","o","r","t","e","d"," ","t","a","r","g","e","t"," ","l","a","n","g","u","a","g","e",":"," ">>
MSG_INVALID_RESPONSE_TYPE ==
  <<"I","n","v","a","l","i","d"," ","r","e","s","p","o","n","s","e"," ","t","y","p","e"," ","f","r","o","m"," ","t","r","a","n","s","l","a","t","i","o","n"," ","s","e","r","v","i","c","e">>
MSG_MISSING_DATA ==
  <<"M","i","s","s","i","n","g"," ","'","d","a","t","a","'"," ","i","n"," ","t","r","a","n","s","l","a","t","i","o","n"," ","r","e","s","p","o","n","s","e">>
MSG_MISSING_TRANSLATIONS ==
  <<"M","i","s","s","i","n","g"," ","'","t","r","a","n","s","l","a","t","i","o","n","s","'"," ","i","n"," ","t","r","a","n","s","l","a","t","i","o","n"," ","r","e","s","p","o","n","s","e">>
MSG_INVALID_TRANSLATIONS ==
  <<"I","n","v","a","l","i","d"," ","t","r","a","n","s","l","a","t","i","o","n","s"," ","f","o","r","m","a","t"," ","i","n"," ","r","e","s","p","o","n","s","e">>
MSG_MISSING_TRANSLATED_TEXT ==
  <<"M","i","s","s","i","n","g"," ","t","r","a","n","s","l","a","t","e","d"," ","t","e","x","t"," ","i","n"," ","r","e","s","p","o","n","s","e">>
MSG_INVALID_REQUEST ==
  <<"I","n","v","a","l","i","d"," ","r","e","q","u","e","s","t">>
MSG_REQUEST_INVALID ==
  <<"T","r","a","n","s","l","a","t","i","o","n"," ","r","e","q","u","e","s","t"," ","i","n","v","a","l","i","d",":"," ">>
MSG_AUTH_FAILED ==
  <<"A","u","t","h","e","n","t","i","c","a","t","i","o","n"," ","f","a","i","l","e","d","."," ","P","l","e","a","s","e"," ","c","h","e","c","k"," ","y","o","u","r"," ","A","P","I"," ","k","e","y",".">>
MSG_SERVICE_ERROR_HTTP ==
  <<"T","r","a","n","s","l","a","t","i","o","n"," ","s","e","r","v","i","c","e"," ","e","r","r","o","r",":"," ","H","T","T","P"," ">>
MSG_EMPTY_TRANSLATION ==
  <<"E","m","p","t","y"," ","t","r","a","n","s","l","a","t","i","o","n"," ","r","e","c","e","i","v","e","d">>
MSG_INVALID_FORMAT ==
  <<"I","n","v","a","l","i","d"," ","r","e","s","p","o","n","s","e"," ","f","o","r","m","a","t"," ","f","r","o","m"," ","t","r","a","n","s","l","a","t","i","o","n"," ","s","e","r","v","i","c","e">>
MSG_TIMEOUT ==
  <<"T","r","a","n","s","l","a","t","i","o","n"," ","s","e","r","v","i","c","e"," ","t","i","m","e","o","u","t","."," ","P","l","e","a","s","e"," ","t","r","y"," ","a","g","a","i","n",".">>
MSG_SERVICE_ERROR ==
  <<"T","r","a","n","s","l","a","t","i","o","n"," ","s","e","r","v","i","c","e"," ","e","r","r","o","r",":"," ">>
MSG_TRANSLATION_FAILED ==
  <<"T","r","a","n","s","l","a","t","i","o","n"," ","f","a","i","l","e","d",":"," ">>
MSG_FAILED_TO_QUERY ==
  <<"F","a","i","l","e","d"," ","t","o"," ","q","u","e","r","y"," ","t","h","e"," ","m","o","d","e","l",".">>
MSG_QUERY_PROCESSING_FAILED ==
  <<"Q","u","e","r","y"," ","p","r","o","c","e","s","s","i","n","g"," ","f","a","i","l","e","d",":"," ">>
MSG_QUERY_NON_EMPTY ==
  <<"Q","u","e","r","y"," ","m","u","s","t"," ","b","e"," ","a"," ","n","o","n","-","e","m","p","t","y"," ","s","t","r","i","n","g">>
MSG_NONE ==
  <<"N","o","n","e">>
MSG_JSON_DECODE ==
  <<"E","x","p","e","c","t","i","n","g"," ","v","a","l","u","e",":"," ","l","i","n","e"," ","1"," ","c","o","l","u","m","n"," ","1"," ","(","c","h","a","r"," ","0",")">>
MSG_CONNECTION ==
  <<"C","o","n","n","e","c","t","i","o","n"," ","a","b","o","r","t","e","d",".">>
MSG_ATTR_LIST_GET ==
  <<"'","l","i","s","t","'"," ","o","b","j","e","c","t"," ","h","a","s"," ","n","o"," ","a","t","t","r","i","b","u","t","e"," ","'","g","e","t","'">>
MSG_ATTR_STR_GET ==
  <<"'","s","t","r","'"," ","o","b","j","e","c","t"," ","h","a","s"," ","n","o"," ","a","t","t","r","i","b","u","t","e"," ","'","g","e","t","'">>
MSG_ATTR_NONE_GET ==
  <<"'","N","o","n","e","T","y","p","e","'"," ","o","b","j","e","c","t"," ","h","a","s"," ","n","o"," ","a","t","t","r","i","b","u","t","e"," ","'","g","e","t","'">>
MSG_TYPE_NOT_ITERABLE ==
  <<"a","r","g","u","m","e","n","t"," ","o","f"," ","t","y","p","e"," ","'","N","o","n","e","T","y","p","e","'"," ","i","s"," ","n","o","t"," ","i","t","e","r","a","b","l","e">>
MSG_TYPE_NOT_SUBSCRIPTABLE ==
  <<"'","i","n","t","'"," ","o","b","j","e","c","t"," ","i","s"," ","n","o","t"," ","s","u","b","s","c","r","i","p","t","a","b","l","e">>
MSG_BAD_REQUEST ==
  <<"4","0","0"," ","B","a","d"," ","R","e","q","u","e","s","t",":"," ","F","a","i","l","e","d"," ","t","o"," ","d","e","c","o","d","e"," ","J","S","O","N"," ","o","b","j","e","c","t">>

\* ----- string functions -----
Whitespace ==
  {" "}

RECURSIVE lstrip(_)
lstrip(s) ==
  IF s # <<>> /\ Head(s) \in Whitespace THEN lstrip(Tail(s)) ELSE s

RECURSIVE rstrip(_)
rstrip(s) ==
  IF s # <<>> /\ s[Len(s)] \in Whitespace
  THEN rstrip(SubSeq(s, 1, Len(s) - 1))
  ELSE s

\* str.strip()
strip(s) ==
  rstrip(lstrip(s))

DigitChars ==
  <<"0", "1", "2", "3", "4", "5", "6", "7", "8", "9">>

\* str(i) of a non-negative int, as f"{response.status_code}" formats it
RECURSIVE IntToStr(_)
IntToStr(i) ==
  IF i < 10 THEN <<DigitChars[i + 1]>>
  ELSE IntToStr(i \div 10) \o <<DigitChars[(i % 10) + 1]>>

\* str(v) of a value interpolated in an f-string
PyStr(v) ==
  CASE v.t = "str" -> v.s
    [] v.t = "int" -> IntToStr(v.n)
    [] OTHER -> MSG_NONE

\* str(KeyError(k)): the repr of the key
KeyErrorStr(k) ==
  <<"'">> \o k \o <<"'">>

\* sub in s
Contains(sub, s) ==
  \E i \in 1..(Len(s) + 1) :
    /\ i + Len(sub) - 1 <= Len(s)
    /\ SubSeq(s, i, i + Len(sub) - 1) = sub

\* ----- outcomes of a call -----
Return(v) ==
  [kind |-> "return", exc |-> "", msg |-> <<>>, val |-> v]
Raise(e, m) ==
  [kind |-> "raise", exc |-> e, msg |-> m, val |-> None]
\* the call has got as far as its remote request, whose text is q
Send(q) ==
  [kind |-> "send", exc |-> "", msg |-> <<>>, val |-> StrVal(q)]
NoOutcome ==
  [kind |-> "none", exc |-> "", msg |-> <<>>, val |-> None]

\* ----- TranslationService -----
wo ==
  <<"w", "o">>
en ==
  <<"e", "n">>
xx ==
  <<"x", "x">>

supported_languages ==
  [k \in {wo, en} |-> IF k = wo THEN "Wolof" ELSE "English"]

\* language codes a caller may pass
LangCodes ==
  {wo, en, xx}

validate_language_codes(source_lang, target_lang) ==
  IF source_lang \notin DOMAIN supported_languages
  THEN Raise("TranslationError", MSG_UNSUPPORTED_SOURCE \o source_lang)
  ELSE IF target_lang \notin DOMAIN supported_languages
  THEN Raise("TranslationError", MSG_UNSUPPORTED_TARGET \o target_lang)
  ELSE Return(None)

\* the `except Exception` clause of translate: any exception raised inside the
\* try block that is not a requests exception, TranslationError included
except_Exception(m) ==
  Raise("TranslationError", MSG_TRANSLATION_FAILED \o m)

\* the `except requests.exceptions.RequestException` clause
except_RequestException(m) ==
  Raise("TranslationError", MSG_SERVICE_ERROR \o m)

\* the `except requests.exceptions.Timeout` clause
except_Timeout ==
  Raise("TranslationError", MSG_TIMEOUT)

\* text_check without its isinstance test
text_check_truthy_only(text) ==
  IF ~Truthy(text)
  THEN Raise("ValueError", MSG_TEXT_NON_EMPTY)
  ELSE Return(None)

\* the text check that opens translate
text_check(text) ==
  IF ~Truthy(text) \/ ~IsStr(text)
  THEN Raise("ValueError", MSG_TEXT_NON_EMPTY)
  ELSE Return(None)

\* the two dictionary lookups of the log line that precedes the try block
log_language_names(source_lang, target_lang) ==
  IF source_lang \notin DOMAIN supported_languages
  THEN Raise("KeyError", KeyErrorStr(source_lang))
  ELSE IF target_lang \notin DOMAIN supported_languages
  THEN Raise("KeyError", KeyErrorStr(target_lang))
  ELSE Return(None)

\* translate up to requests.post: the exception it raises, or the q it sends
translate_request(text, source_lang, target_lang) ==
  IF text_check(text).kind = "raise" THEN text_check(text)
  ELSE IF log_language_names(source_lang, target_lang).kind = "raise"
  THEN log_language_names(source_lang, target_lang)
  ELSE IF validate_language_codes(source_lang, target_lang).kind = "raise"
  THEN except_Exception(validate_language_codes(source_lang, target_lang).msg)
  ELSE Send(strip(text.s))

\* get_request_id runs after the text check and before everything else
get_request_id(id, text) ==
  IF text_check(text).kind = "raise" THEN id ELSE id + 1

\* ----- responses of the translation API -----
\* A response body, flattened to what the code inspects: whether it parses as
\* JSON, the type of the top-level value, the 'error' object of a 400 and the
\* data.translations[0].translatedText path of a 200.
EmptyObject ==
  [parsable |-> TRUE, top |-> "dict",
   hasError |-> FALSE, errorIsDict |-> FALSE, hasMessage |-> FALSE, message |-> None,
   hasData |-> FALSE, dataIsDict |-> FALSE, hasTranslations |-> FALSE,
   translations |-> None, hasTranslatedText |-> FALSE, translatedText |-> None]

\* {"error": {...}} with or without a message
ErrorBody(hasMsg, m) ==
  [EmptyObject EXCEPT !.hasError = TRUE, !.errorIsDict = TRUE,
                      !.hasMessage = hasMsg, !.message = m]

\* {"data": {"translations": tr}}
TranslationsBody(tr) ==
  [EmptyObject EXCEPT !.hasData = TRUE, !.dataIsDict = TRUE,
                      !.hasTranslations = TRUE, !.translations = tr]

\* {"data": {"translations": [{"translatedText": v}]}}
TranslatedBody(v) ==
  [TranslationsBody(ListVal(1)) EXCEPT !.hasTranslatedText = TRUE, !.translatedText = v]

\* strings a remote service may send
ReplyStrings ==
  {StrVal(s) : s \in Strs(MaxReplyLen)}

Bodies ==
  {[EmptyObject EXCEPT !.parsable = FALSE],
   [EmptyObject EXCEPT !.top = "list"],
   EmptyObject,
   [EmptyObject EXCEPT !.hasError = TRUE],
   ErrorBody(FALSE, None),
   [EmptyObject EXCEPT !.hasData = TRUE],
   [EmptyObject EXCEPT !.hasData = TRUE, !.dataIsDict = TRUE],
   TranslationsBody(None), TranslationsBody(ListVal(0)), TranslationsBody(StrVal(<<"x">>)),
   TranslationsBody(ListVal(1)),
   TranslatedBody(None), TranslatedBody(IntVal(7)), TranslatedBody(ListVal(1))}
  \cup {ErrorBody(TRUE, m) : m \in ReplyStrings \cup {None}}
  \cup {TranslatedBody(v) : v \in ReplyStrings}

StatusCodes ==
  {200, 400, 403, 404, 500}

NoResponse ==
  [kind |-> "none", status_code |-> 0, body |-> EmptyObject]

\* what requests.post produces: a response, a timeout or another transport error
Responses ==
  {[kind |-> "http", status_code |-> c, body |-> b] : c \in StatusCodes, b \in Bodies}
  \cup {[kind |-> k, status_code |-> 0, body |-> EmptyObject] : k \in {"timeout", "connection"}}

validate_translation_response(response_data) ==
  IF response_data.top # "dict"
  THEN Raise("TranslationError", MSG_INVALID_RESPONSE_TYPE)
  ELSE IF ~response_data.hasData
  THEN Raise("TranslationError", MSG_MISSING_DATA)
  ELSE IF ~response_data.dataIsDict
  THEN Raise("TypeError", MSG_TYPE_NOT_ITERABLE)
  ELSE IF ~response_data.hasTranslations
  THEN Raise("TranslationError", MSG_MISSING_TRANSLATIONS)
  ELSE IF ~Truthy(response_data.translations) \/ response_data.translations.t # "list"
  THEN Raise("TranslationError", MSG_INVALID_TRANSLATIONS)
  ELSE IF ~response_data.hasTranslatedText
  THEN Raise("TranslationError", MSG_MISSING_TRANSLATED_TEXT)
  ELSE Return(None)

\* the branch for status 400
status_400(body) ==
  IF ~body.parsable THEN except_RequestException(MSG_JSON_DECODE)
  ELSE IF body.top # "dict" THEN except_Exception(MSG_ATTR_LIST_GET)
  ELSE IF body.hasError /\ ~body.errorIsDict THEN except_Exception(MSG_ATTR_STR_GET)
  ELSE except_Exception(MSG_REQUEST_INVALID \o
         (IF body.hasError /\ body.hasMessage
          THEN PyStr(body.message)
          ELSE MSG_INVALID_REQUEST))

\* status_200 without its test of an empty translation
status_200_no_empty_check(body) ==
  IF ~body.parsable THEN except_Exception(MSG_INVALID_FORMAT)
  ELSE IF validate_translation_response(body).kind = "raise"
  THEN except_Exception(validate_translation_response(body).msg)
  ELSE Return(body.translatedText)

\* the inner try block, run for status 200
status_200(body) ==
  IF ~body.parsable THEN except_Exception(MSG_INVALID_FORMAT)
  ELSE IF validate_translation_response(body).kind = "raise"
  THEN except_Exception(validate_translation_response(body).msg)
  ELSE IF ~Truthy(body.translatedText) THEN except_Exception(MSG_EMPTY_TRANSLATION)
  ELSE IF body.translatedText.t = "int" THEN except_Exception(MSG_TYPE_NOT_SUBSCRIPTABLE)
  ELSE Return(body.translatedText)

\* translate_response without the branch for status 403
translate_response_no_403(resp) ==
  CASE resp.kind = "timeout" -> except_Timeout
    [] resp.kind = "connection" -> except_RequestException(MSG_CONNECTION)
    [] OTHER ->
       IF resp.status_code = 400 THEN status_400(resp.body)
       ELSE IF resp.status_code # 200
       THEN except_Exception(MSG_SERVICE_ERROR_HTTP \o IntToStr(resp.status_code))
       ELSE status_200(resp.body)

\* translate from the return of requests.post on
translate_response(resp) ==
  CASE resp.kind = "timeout" -> except_Timeout
    [] resp.kind = "connection" -> except_RequestException(MSG_CONNECTION)
    [] OTHER ->
       IF resp.status_code = 400 THEN status_400(resp.body)
       ELSE IF resp.status_code = 403 THEN except_Exception(MSG_AUTH_FAILED)
       ELSE IF resp.status_code # 200
       THEN except_Exception(MSG_SERVICE_ERROR_HTTP \o IntToStr(resp.status_code))
       ELSE status_200(resp.body)

\* ----- DataModelService -----
\* what client.chat.completions.create and the read of choices[0] produce
Replies ==
  {[kind |-> "ok", content |-> v] : v \in ReplyStrings \cup {None}}
  \cup {[kind |-> k, content |-> None] : k \in {"api_error", "no_choices"}}

query_model(reply) ==
  IF reply.kind = "ok" THEN Return(reply.content)
  ELSE Raise("Exception", MSG_FAILED_TO_QUERY)

\* process_query_request without its isinstance test
process_query_request_truthy_only(query) ==
  IF ~Truthy(query)
  THEN Raise("ValueError", MSG_QUERY_NON_EMPTY)
  ELSE Send(strip(query.s))

\* process_query up to the remote call: the ValueError, or the prompt it sends
process_query_request(query) ==
  IF ~Truthy(query) \/ ~IsStr(query)
  THEN Raise("ValueError", MSG_QUERY_NON_EMPTY)
  ELSE Send(strip(query.s))

\* process_query_response that lets the error of query_model through as it is
process_query_response_unwrapped(reply) ==
  query_model(reply)

\* process_query from the return of query_model on
process_query_response(reply) ==
  IF query_model(reply).kind = "raise"
  THEN Raise("Exception", MSG_QUERY_PROCESSING_FAILED \o query_model(reply).msg)
  ELSE query_model(reply)

\* ----- the /process route -----
\* values a caller may pass as a text or a query
ArgValues ==
  {StrVal(s) : s \in Strs(MaxLen)} \cup {None, IntVal(0), IntVal(7), ListVal(1)}

\* what request.get_json() yields: a decoding failure, null, or an object
RequestData ==
  {[kind |-> k, hasQuery |-> FALSE, query |-> None] : k \in {"invalid", "null", "dict"}}
  \cup {[kind |-> "dict", hasQuery |-> TRUE, query |-> v] : v \in ArgValues}

\* request.get_json() and data.get('query', '')
get_query(data) ==
  CASE data.kind = "invalid" -> Raise("BadRequest", MSG_BAD_REQUEST)
    [] data.kind = "null" -> Raise("AttributeError", MSG_ATTR_NONE_GET)
    [] OTHER -> Return(IF data.hasQuery THEN data.query ELSE StrVal(<<>>))

NoHttp ==
  [status |-> 0, error |-> <<>>, original_query |-> None, french_query |-> None,
   french_response |-> None, wolof_response |-> None]

\* jsonify({'error': m}), status
HttpError(status, m) ==
  [NoHttp EXCEPT !.status = status, !.error = m]

\* HttpResult with french_query and french_response exchanged
HttpResult_swapped(oq, fq, fr, wr) ==
  [NoHttp EXCEPT !.status = 200, !.original_query = oq, !.french_query = fr,
                 !.french_response = fq, !.wolof_response = wr]

\* the jsonify of the four fields, status 200
HttpResult(oq, fq, fr, wr) ==
  [NoHttp EXCEPT !.status = 200, !.original_query = oq, !.french_query = fq,
                 !.french_response = fr, !.wolof_response = wr]

\* ----- observation of one request: entries, remote calls, returns, raises -----
Entered(api, arg, s, t) ==
  [ev |-> "enter", api |-> api, arg |-> arg, source |-> s, target |-> t]
Called(api, q, s, t) ==
  [ev |-> "call", api |-> api, arg |-> q, source |-> s, target |-> t]
Returned(api, val) ==
  [ev |-> "return", api |-> api, arg |-> val, source |-> <<>>, target |-> <<>>]
Raised(api) ==
  [ev |-> "raise", api |-> api, arg |-> None, source |-> <<>>, target |-> <<>>]

\* the events of a translate call up to its remote request
translate_events(text, s, t) ==
  <<Entered("translate", text, s, t)>> \o
  (IF translate_request(text, s, t).kind = "send"
   THEN <<Called("translate", translate_request(text, s, t).val, s, t)>>
   ELSE <<Raised("translate")>>)

\* the events of a DataModelService.process_query call up to its remote request
process_query_events(query) ==
  <<Entered("process_query", query, <<>>, <<>>)>> \o
  (IF process_query_request(query).kind = "send"
   THEN <<Called("chat", process_query_request(query).val, <<>>, <<>>)>>
   ELSE <<Raised("process_query")>>)

\* ----- state -----
VARIABLES
  pc,              \* "idle", "step1", "step2", "step3" (the route waits for a
                   \* remote reply), "translate", "process_query" (a service
                   \* method called on its own waits), "done"
  entry,           \* the operation in progress: "process", "translate",
                   \* "process_query", or "none"
  request_id,      \* TranslationService.request_id
  wolof_query,     \* locals of the route
  french_query,
  french_response,
  response,        \* the response the translate call received
  events,          \* what the operation in progress has done so far
  outcome,         \* how the service method called on its own ended
  http             \* the response of the route

vars ==
  <<pc, entry, request_id, wolof_query, french_query, french_response,
    response, events, outcome, http>>

Init ==
  /\ pc = "idle"
  /\ entry = "none"
  /\ request_id = 0
  /\ wolof_query = None
  /\ french_query = None
  /\ french_response = None
  /\ response = NoResponse
  /\ events = <<>>
  /\ outcome = NoOutcome
  /\ http = NoHttp

\* the `except Exception` clause of the route
route_except(e) ==
  HttpError(500, e.msg)

\* POST /process up to the first remote call
main_process_query ==
  /\ pc = "idle"
  /\ \E data \in RequestData :
       LET got == get_query(data)
           out == translate_request(got.val, wo, en)
       IN /\ entry' = "process"
          /\ IF got.kind = "raise"
             THEN /\ http' = route_except(got)
                  /\ pc' = "done"
                  /\ UNCHANGED <<wolof_query, request_id, events>>
             ELSE IF ~Truthy(got.val)
             THEN /\ http' = HttpError(400, MSG_NO_QUERY)
                  /\ pc' = "done"
                  /\ wolof_query' = got.val
                  /\ UNCHANGED <<request_id, events>>
             ELSE /\ wolof_query' = got.val
                  /\ request_id' = get_request_id(request_id, got.val)
                  /\ events' = events \o translate_events(got.val, wo, en)
                  /\ IF out.kind = "raise"
                     THEN http' = route_except(out) /\ pc' = "done"
                     ELSE http' = http /\ pc' = "step1"
  /\ UNCHANGED <<french_query, french_response, response, outcome>>

\* the reply to the first translation arrives; on success the route goes on
\* to DataModelService.process_query
step1_response ==
  /\ pc = "step1"
  /\ \E resp \in Responses :
       LET out == translate_response(resp)
           pq == process_query_request(out.val)
       IN IF out.kind = "raise"
          THEN /\ events' = events \o <<Raised("translate")>>
               /\ http' = route_except(out)
               /\ pc' = "done"
               /\ UNCHANGED french_query
          ELSE /\ french_query' = out.val
               /\ events' = events \o <<Returned("translate", out.val)>>
                                   \o process_query_events(out.val)
               /\ IF pq.kind = "raise"
                  THEN http' = route_except(pq) /\ pc' = "done"
                  ELSE http' = http /\ pc' = "step2"
  /\ UNCHANGED <<entry, request_id, wolof_query, french_response, response, outcome>>

\* step2_response that logs the failure of the model and goes on to translate
\* the error text back
step2_response_continue ==
  /\ pc = "step2"
  /\ \E reply \in Replies :
       LET out == process_query_response(reply)
           fr == IF out.kind = "raise" THEN StrVal(out.msg) ELSE out.val
           tr == translate_request(fr, en, wo)
       IN /\ french_response' = fr
          /\ request_id' = get_request_id(request_id, fr)
          /\ events' = events \o <<IF out.kind = "raise"
                                    THEN Raised("process_query")
                                    ELSE Returned("process_query", fr)>>
                              \o translate_events(fr, en, wo)
          /\ IF tr.kind = "raise"
             THEN http' = route_except(tr) /\ pc' = "done"
             ELSE http' = http /\ pc' = "step3"
  /\ UNCHANGED <<entry, wolof_query, french_query, response, outcome>>

\* the reply of the model arrives; on success the route goes on to the
\* translation back
step2_response ==
  /\ pc = "step2"
  /\ \E reply \in Replies :
       LET out == process_query_response(reply)
           tr == translate_request(out.val, en, wo)
       IN IF out.kind = "raise"
          THEN /\ events' = events \o <<Raised("process_query")>>
               /\ http' = route_except(out)
               /\ pc' = "done"
               /\ UNCHANGED <<french_response, request_id>>
          ELSE /\ french_response' = out.val
               /\ request_id' = get_request_id(request_id, out.val)
               /\ events' = events \o <<Returned("process_query", out.val)>>
                                   \o translate_events(out.val, en, wo)
               /\ IF tr.kind = "raise"
                  THEN http' = route_except(tr) /\ pc' = "done"
                  ELSE http' = http /\ pc' = "step3"
  /\ UNCHANGED <<entry, wolof_query, french_query, response, outcome>>

\* the reply to the translation back arrives; the route answers
step3_response ==
  /\ pc = "step3"
  /\ \E resp \in Responses :
       LET out == translate_response(resp)
       IN IF out.kind = "raise"
          THEN /\ events' = events \o <<Raised("translate")>>
               /\ http' = route_except(out)
          ELSE /\ events' = events \o <<Returned("translate", out.val)>>
               /\ http' = HttpResult(wolof_query, french_query, french_response, out.val)
  /\ pc' = "done"
  /\ UNCHANGED <<entry, request_id, wolof_query, french_query, french_response,
                 response, outcome>>

\* TranslationService.translate called on its own, up to its remote call
call_translate ==
  /\ pc = "idle"
  /\ \E text \in ArgValues, s \in LangCodes, t \in LangCodes :
       LET out == translate_request(text, s, t)
       IN /\ request_id' = get_request_id(request_id, text)
          /\ events' = events \o translate_events(text, s, t)
          /\ IF out.kind = "raise"
             THEN outcome' = out /\ pc' = "done"
             ELSE outcome' = outcome /\ pc' = "translate"
  /\ entry' = "translate"
  /\ UNCHANGED <<wolof_query, french_query, french_response, response, http>>

\* the reply to that call arrives
translate_return ==
  /\ pc = "translate"
  /\ \E resp \in Responses :
       /\ response' = resp
       /\ outcome' = translate_response(resp)
       /\ events' = events \o
            <<IF translate_response(resp).kind = "raise"
              THEN Raised("translate")
              ELSE Returned("translate", translate_response(resp).val)>>
  /\ pc' = "done"
  /\ UNCHANGED <<entry, request_id, wolof_query, french_query, french_response, http>>

\* DataModelService.process_query called on its own, up to its remote call
call_process_query ==
  /\ pc = "idle"
  /\ \E query \in ArgValues :
       LET out == process_query_request(query)
       IN /\ events' = events \o process_query_events(query)
          /\ IF out.kind = "raise"
             THEN outcome' = out /\ pc' = "done"
             ELSE outcome' = outcome /\ pc' = "process_query"
  /\ entry' = "process_query"
  /\ UNCHANGED <<request_id, wolof_query, french_query, french_response, response, http>>

\* the reply of the model to that call arrives
process_query_return ==
  /\ pc = "process_query"
  /\ \E reply \in Replies :
       /\ outcome' = process_query_response(reply)
       /\ events' = events \o
            <<IF process_query_response(reply).kind = "raise"
              THEN Raised("process_query")
              ELSE Returned("process_query", process_query_response(reply).val)>>
  /\ pc' = "done"
  /\ UNCHANGED <<entry, request_id, wolof_query, french_query, french_response,
                 response, http>>

\* the operation is over; the process serves the next one. Only the services'
\* state (the request counter) outlives an operation.
next_request ==
  /\ pc = "done"
  /\ request_id < MaxRequestId
  /\ pc' = "idle"
  /\ entry' = "none"
  /\ wolof_query' = None
  /\ french_query' = None
  /\ french_response' = None
  /\ response' = NoResponse
  /\ events' = <<>>
  /\ outcome' = NoOutcome
  /\ http' = NoHttp
  /\ UNCHANGED request_id

Next ==
  \/ main_process_query
  \/ step1_response
  \/ step2_response
  \/ step3_response
  \/ call_translate
  \/ translate_return
  \/ call_process_query
  \/ process_query_return
  \/ next_request

Spec ==
  Init /\ [][Next]_vars

\* ----- derived observations -----
\* the remote calls made so far by the operation in progress
Calls ==
  SelectSeq(events, LAMBDA e : e.ev = "call")


\* the arguments the operation in progress was called with
FirstArg ==
  events[1].arg

InvalidText(v) ==
  ~Truthy(v) \/ ~IsStr(v)

Unsupported(code) ==
  code \notin {wo, en}

\* the three remote calls of the pipeline, in order
PipelineCalls ==
  <<[api |-> "translate", source |-> wo, target |-> en],
    [api |-> "chat", source |-> <<>>, target |-> <<>>],
    [api |-> "translate", source |-> en, target |-> wo]>>

\* the number of service methods that have returned before event i
ReturnsBefore(i) ==
  Cardinality({j \in 1..(i - 1) : events[j].ev = "return"})

\* the number of remote calls made up to event i
CallsUpTo(i) ==
  Cardinality({j \in 1..i : events[j].ev = "call"})

TypeOK ==
  /\ pc \in {"idle", "step1", "step2", "step3", "translate", "process_query", "done"}
  /\ entry \in {"none", "process", "translate", "process_query"}
  /\ request_id \in 0..(MaxRequestId + 2)
  /\ http.status \in {0, 200, 400, 500}
  /\ outcome.kind \in {"none", "return", "raise"}

\* C1: in one /process request the remote calls are a prefix of
\* translate(wo->en), chat, translate(en->wo), each made at most once; the k-th
\* call is made only after the k-1 steps before it have returned; a step that
\* raises is the last thing the request does, and the request ends with 500.
C1_PipelineOrder ==
  entry = "process" =>
    /\ Len(Calls) <= Len(PipelineCalls)
    /\ \A k \in 1..Len(Calls) :
         /\ Calls[k].api = PipelineCalls[k].api
         /\ Calls[k].source = PipelineCalls[k].source
         /\ Calls[k].target = PipelineCalls[k].target
    /\ \A i \in 1..Len(events) :
         /\ events[i].ev = "call" => ReturnsBefore(i) = CallsUpTo(i) - 1
         /\ events[i].ev = "raise" =>
              /\ i = Len(events)
              /\ pc = "done"
              /\ http.status = 500

\* the model was queried and failed: two calls were made and no third
C1_Witness ==
  /\ entry = "process"
  /\ pc = "done"
  /\ Len(Calls) = 2
  /\ events[Len(events)] = Raised("process_query")

\* C2 (as claimed): translate with a text that passes the text check and a
\* source or target outside {'wo', 'en'} ends in TranslationError, with no
\* remote call.
C2_UnsupportedCodeIsTranslationError ==
  ( /\ entry = "translate"
    /\ ~InvalidText(FirstArg)
    /\ (Unsupported(events[1].source) \/ Unsupported(events[1].target)) )
  => /\ pc = "done"
     /\ outcome.kind = "raise"
     /\ outcome.exc = "TranslationError"
     /\ Calls = <<>>

\* C3: translate with an empty or non-string text raises ValueError whatever
\* the language codes are, and makes no remote call.
C3_InvalidTextIsValueError ==
  (entry = "translate" /\ InvalidText(FirstArg)) =>
    /\ pc = "done"
    /\ outcome = Raise("ValueError", MSG_TEXT_NON_EMPTY)
    /\ Calls = <<>>

\* an empty text with an unsupported source code
C3_Witness ==
  /\ entry = "translate"
  /\ FirstArg = StrVal(<<>>)
  /\ events[1].source = xx
  /\ outcome.exc = "ValueError"

\* the response is a 200 whose body has data.translations[0].translatedText
\* with a non-empty value
WellFormed(r) ==
  /\ r.kind = "http"
  /\ r.status_code = 200
  /\ r.body.parsable
  /\ r.body.top = "dict"
  /\ r.body.hasData /\ r.body.dataIsDict
  /\ r.body.hasTranslations
  /\ r.body.translations.t = "list" /\ r.body.translations.n > 0
  /\ r.body.hasTranslatedText
  /\ Truthy(r.body.translatedText)

\* C4: once translate has made its remote call, it returns a value only for a
\* well-formed 200 response, and the value is that translatedText; every other
\* end is a TranslationError.
C4_ReturnOnlyWellFormed ==
  (entry = "translate" /\ pc = "done" /\ Len(Calls) = 1) =>
    /\ outcome.kind \in {"return", "raise"}
    /\ outcome.kind = "return" =>
         /\ WellFormed(response)
         /\ outcome.val = response.body.translatedText
    /\ outcome.kind = "raise" => outcome.exc = "TranslationError"
    /\ ~WellFormed(response) => outcome.kind = "raise"

\* a 200 whose body has no 'translations'
C4_Witness ==
  /\ entry = "translate"
  /\ pc = "done"
  /\ response.status_code = 200
  /\ response.body.hasData /\ response.body.dataIsDict
  /\ ~response.body.hasTranslations
  /\ outcome.exc = "TranslationError"

\* C5 (as claimed): a /process request whose 'query' is not a non-empty
\* string is answered with 400.
C5_InvalidQueryIs400 ==
  ( /\ entry = "process"
    /\ pc = "done"
    /\ wolof_query # None
    /\ InvalidText(wolof_query) )
  => http.status = 400

\* C6: a /process answer with status 200 carries the query as received, the
\* value the first translate returned, the value process_query returned for
\* it, and the value the second translate returned for that.
C6_FourFields ==
  http.status = 200 =>
    /\ Len(events) = 9
    /\ events[1] = Entered("translate", http.original_query, wo, en)
    /\ events[3] = Returned("translate", http.french_query)
    /\ events[4] = Entered("process_query", http.french_query, <<>>, <<>>)
    /\ events[6] = Returned("process_query", http.french_response)
    /\ events[7] = Entered("translate", http.french_response, en, wo)
    /\ events[9] = Returned("translate", http.wolof_response)
    /\ http.original_query = wolof_query
    /\ http.error = <<>>

\* a success whose four strings differ from their neighbours
C6_Witness ==
  /\ http.status = 200
  /\ http.original_query # http.french_query
  /\ http.french_query # http.french_response
  /\ http.french_response # http.wolof_response

\* the model was called by process_query on its own, and failed
ModelQueryFailed ==
  /\ entry = "process_query"
  /\ pc = "done"
  /\ Len(Calls) = 1
  /\ outcome.kind = "raise"

\* C7 (as claimed): the error process_query raises when the model query fails
\* contains the text of the query.
C7_ErrorCarriesQuery ==
  ModelQueryFailed => Contains(FirstArg.s, outcome.msg)

\* C7 (amended): the error is a plain Exception whose message is 'Query
\* processing failed: ' followed by the message of the error of query_model,
\* 'Failed to query the model.'
C7_ErrorRewrapped ==
  ModelQueryFailed =>
    outcome = Raise("Exception", MSG_QUERY_PROCESSING_FAILED \o MSG_FAILED_TO_QUERY)

C7_Witness ==
  /\ ModelQueryFailed
  /\ FirstArg = StrVal(<<"x">>)

\* C8: process_query with an empty or non-string query raises ValueError and
\* makes no call to the model.
C8_InvalidQueryIsValueError ==
  (entry = "process_query" /\ InvalidText(FirstArg)) =>
    /\ pc = "done"
    /\ outcome = Raise("ValueError", MSG_QUERY_NON_EMPTY)
    /\ Calls = <<>>

C8_Witness ==
  /\ entry = "process_query"
  /\ FirstArg = StrVal(<<>>)
  /\ outcome.exc = "ValueError"

\* translate got a response whose status is not 200
Non200 ==
  /\ entry = "translate"
  /\ pc = "done"
  /\ response.kind = "http"
  /\ response.status_code # 200

\* the body is an object whose 'error' is an object with a 'message'
HasRemoteMessage(b) ==
  b.parsable /\ b.top = "dict" /\ b.hasError /\ b.errorIsDict /\ b.hasMessage

\* the body is an object whose 'error' is absent or an object
ReadableErrorBody(b) ==
  b.parsable /\ b.top = "dict" /\ (b.hasError => b.errorIsDict)

\* what the claim says of the statuses 403 and the other non-200, non-400 ones
AuthAndGenericMessages ==
  /\ outcome.kind = "raise"
  /\ outcome.exc = "TranslationError"
  /\ response.status_code = 403 => Contains(MSG_AUTH_FAILED, outcome.msg)
  /\ response.status_code \notin {400, 403} =>
       Contains(MSG_SERVICE_ERROR_HTTP \o IntToStr(response.status_code), outcome.msg)

\* C9 (as claimed): 403 gives the authentication message; 400 gives the remote
\* error.message when the body has one and 'Invalid request' otherwise; any
\* other status gives the generic message with the status.
C9_StatusMessages ==
  Non200 =>
    /\ AuthAndGenericMessages
    /\ response.status_code = 400 =>
         IF HasRemoteMessage(response.body)
         THEN Contains(MSG_REQUEST_INVALID \o PyStr(response.body.message), outcome.msg)
         ELSE Contains(MSG_INVALID_REQUEST, outcome.msg)

\* C9 (amended): as claimed, but the 400 messages are given only when the body
\* is a JSON object whose 'error' is absent or an object; for any other 400
\* body the TranslationError carries the text of the decoding or attribute
\* error and is not a 'Translation request invalid: ...' message.
C9_StatusMessagesReadableBody ==
  Non200 =>
    /\ AuthAndGenericMessages
    /\ response.status_code = 400 =>
         IF ~ReadableErrorBody(response.body)
         THEN ~Contains(MSG_REQUEST_INVALID, outcome.msg)
         ELSE IF HasRemoteMessage(response.body)
         THEN Contains(MSG_REQUEST_INVALID \o PyStr(response.body.message), outcome.msg)
         ELSE Contains(MSG_REQUEST_INVALID \o MSG_INVALID_REQUEST, outcome.msg)

\* a 403
C9_Witness ==
  /\ Non200
  /\ response.status_code = 403
  /\ Contains(MSG_AUTH_FAILED, outcome.msg)

\* C10 (as claimed): the q of every remote translation call is non-empty.
C10_SentTextNonEmpty ==
  \A k \in 1..Len(Calls) :
    Calls[k].api = "translate" => Calls[k].arg.s # <<>>
====
